---- MODULE Spec2Model ----
(***************************************************************************)
(* Excel AI Engine (excel_ai_engine_gemini.py): the FastAPI request        *)
(* handlers, the ExcelDataHandler adapter and the DataOperationsEngine,    *)
(* modelled as a state machine over a file system, a wall clock and the    *)
(* requests served by the single uvicorn event loop.                       *)
(***************************************************************************)
EXTENDS Integers, Sequences, FiniteSets, TLC

(***************************************************************************)
(* Bounds of the model.                                                    *)
(***************************************************************************)
MaxRows == 2        \* rows of a table drawn as an engine input
MaxVal == 1         \* numeric cells of such a table are 0..MaxVal, or blank
MaxClock == 2       \* the wall clock runs over the ticks 0..MaxClock
TicksPerSecond == 2 \* clock ticks in one second
NumReq == 2         \* requests served in one run
MantissaBits == 3   \* significant bits of a floating-point number
FloatRows == 3      \* rows of a column of floating-point numbers
PivotRows == 2      \* rows of a table drawn as a pivot input
JoinRows == 2       \* rows of each table drawn as a join input
DateRows == 2       \* rows of each table drawn as an input of date_operations

(***************************************************************************)
(* Cell values.  A cell is <<tag, n, d>>: the rational n/d ("num"), a      *)
(* blank / not-a-number ("nan"), a signed infinity ("inf", sign n) or the  *)
(* square root of the rational n/d ("sqrt", produced by std only).         *)
(* Every arithmetic operation rounds its exact result to the nearest       *)
(* number of MantissaBits significant bits, ties to the even one, as IEEE  *)
(* doubles do with 53 bits; the exponent range is not bounded.             *)
(***************************************************************************)
Num(n) == <<"num", n, 1>>
NaN == <<"nan", 0, 1>>
Inf(s) == <<"inf", s, 1>>

IsNum(v) == v[1] = "num"
IsNaN(v) == v[1] = "nan"
IsInf(v) == v[1] = "inf"

Abs(n) == IF n < 0 THEN -n ELSE n
Sign(n) == IF n < 0 THEN -1 ELSE IF n = 0 THEN 0 ELSE 1

RECURSIVE GCD(_, _)
GCD(a, b) == IF b = 0 THEN a ELSE GCD(b, a % b)

\* the rational n/d (d # 0) in lowest terms with a positive denominator
Frac(n, d) ==
    LET g == GCD(Abs(n), Abs(d))
    IN  <<"num", Sign(n) * Sign(d) * (Abs(n) \div g), Abs(d) \div g>>

\* sign * n/d (n/d > 0) with n/d scaled by 2^k into
\* [2^(MantissaBits-1), 2^MantissaBits), rounded to the nearest integer (ties
\* to even), scaled back
RECURSIVE RoundScaled(_, _, _, _)
RoundScaled(sign, n, d, k) ==
    IF n >= d * 2^MantissaBits \/ n < d * 2^(MantissaBits - 1)
    THEN RoundScaled(sign,
                     IF n >= d * 2^MantissaBits THEN n ELSE 2 * n,
                     IF n >= d * 2^MantissaBits THEN 2 * d ELSE d,
                     IF n >= d * 2^MantissaBits THEN k + 1 ELSE k - 1)
    ELSE Frac(sign * ((n \div d) + (IF \/ 2 * (n % d) > d
                                       \/ 2 * (n % d) = d /\ (n \div d) % 2 = 1
                                    THEN 1 ELSE 0))
                   * 2^(IF k >= 0 THEN k ELSE 0),
              2^(IF k >= 0 THEN 0 ELSE -k))

\* the floating-point number nearest to the rational n/d (d # 0)
fl(n, d) ==
    IF n = 0 THEN Num(0)
    ELSE IF Abs(d) = 1 /\ Abs(n) <= 2^MantissaBits THEN Num(n * d)
    ELSE RoundScaled(Sign(n) * Sign(d), Abs(n), Abs(d), 0)

\* Series.__add__ on one pair of cells
FAdd(x, y) ==
    IF IsNaN(x) \/ IsNaN(y) THEN NaN
    ELSE IF IsInf(x) THEN (IF IsInf(y) /\ y[2] # x[2] THEN NaN ELSE x)
    ELSE IF IsInf(y) THEN y
    ELSE fl(x[2] * y[3] + y[2] * x[3], x[3] * y[3])

FNeg(x) == <<x[1], -x[2], x[3]>>

\* Series.__sub__ on one pair of cells
FSub(x, y) == FAdd(x, FNeg(y))

\* Series.__mul__ on one pair of cells
FMul(x, y) ==
    IF IsNaN(x) \/ IsNaN(y) THEN NaN
    ELSE IF IsInf(x) \/ IsInf(y)
         THEN (IF Sign(x[2]) * Sign(y[2]) = 0 THEN NaN
               ELSE Inf(Sign(x[2]) * Sign(y[2])))
    ELSE fl(x[2] * y[2], x[3] * y[3])

\* Series.__truediv__ on one pair of cells: x/0 is +-inf, 0/0 is NaN
FDiv(x, y) ==
    IF IsNaN(x) \/ IsNaN(y) THEN NaN
    ELSE IF IsInf(x)
         THEN (IF IsInf(y) THEN NaN
               ELSE Inf(x[2] * (IF y[2] < 0 THEN -1 ELSE 1)))
    ELSE IF IsInf(y) THEN Num(0)
    ELSE IF y[2] = 0
         THEN (IF x[2] = 0 THEN NaN ELSE Inf(Sign(x[2])))
    ELSE fl(x[2] * y[3], x[3] * y[2])

\* x < y on cells that are not NaN
FLess(x, y) ==
    IF IsInf(x) THEN x[2] < 0 /\ ~(IsInf(y) /\ y[2] < 0)
    ELSE IF IsInf(y) THEN y[2] > 0
    ELSE x[2] * y[3] < y[2] * x[3]

(***************************************************************************)
(* Tables (pandas DataFrame): the column names in order, the row count,    *)
(* one sequence of cells per column, and the row index (its name, "" for   *)
(* the default index, and one label per row).                              *)
(***************************************************************************)
Range(s) == {s[i] : i \in 1..Len(s)}

\* pd.RangeIndex(n): the labels 0..n-1
RangeIndex(n) == [i \in 1..n |-> Num(i - 1)]

EmptyTable ==
    [columns |-> <<>>, nrows |-> 0, data |-> <<>>, index_name |-> "", index |-> <<>>]

HasCol(df, c) == c \in Range(df.columns)

\* df[c] = vals: overwrite the column in place, or append it as the last column
SetCol(df, c, vals) ==
    [df EXCEPT
        !.columns = IF HasCol(df, c) THEN df.columns ELSE Append(df.columns, c),
        !.data    = [x \in Range(df.columns) \cup {c} |->
                        IF x = c THEN vals ELSE df.data[x]]]

\* outcome of a call: exc = "" when it returned val, else the message of the
\* exception it raised
Returned(v) == [exc |-> "", val |-> v]
Raised(msg, v) == [exc |-> msg, val |-> v]

\* str(KeyError(name))
KeyErrorStr(name) == "'" \o name \o "'"

(***************************************************************************)
(* DataOperationsEngine.basic_math                                         *)
(***************************************************************************)
SupportedOps == {"add", "subtract", "multiply", "divide"}

\* the chain with the multiply branch adding instead
math_operator_slip(operation, x, y) ==
    IF operation = "add" THEN FAdd(x, y)
    ELSE IF operation = "subtract" THEN FSub(x, y)
    ELSE IF operation = "multiply" THEN FAdd(x, y)
    ELSE FDiv(x, y)

\* the branch of the if/elif chain taken for a supported operator name
math_operator(operation, x, y) ==
    IF operation = "add" THEN FAdd(x, y)
    ELSE IF operation = "subtract" THEN FSub(x, y)
    ELSE IF operation = "multiply" THEN FMul(x, y)
    ELSE FDiv(x, y)

\* df[col1] <op> df[col2]: the first failing column lookup raises KeyError
math_series(df, operation, col1, col2) ==
    IF ~HasCol(df, col1) THEN Raised(KeyErrorStr(col1), <<>>)
    ELSE IF ~HasCol(df, col2) THEN Raised(KeyErrorStr(col2), <<>>)
    ELSE Returned([i \in 1..df.nrows |->
                      math_operator(operation, df.data[col1][i], df.data[col2][i])])

\* a chain with a final else that raises
basic_math_strict(df, operation, col1, col2, result_col) ==
    IF operation \in SupportedOps
    THEN LET s == math_series(df, operation, col1, col2)
         IN  IF s.exc # ""
             THEN Raised("Math operation failed: " \o s.exc, df)
             ELSE Returned(SetCol(df, result_col, s.val))
    ELSE Raised("Math operation failed: unsupported operation", df)

basic_math(df, operation, col1, col2, result_col) ==
    IF operation \in SupportedOps
    THEN LET s == math_series(df, operation, col1, col2)
         IN  IF s.exc # ""
             THEN Raised("Math operation failed: " \o s.exc, df)
             ELSE Returned(SetCol(df, result_col, s.val))
    ELSE Returned(df)

(***************************************************************************)
(* Series reductions used by aggregations and pivot_table (skipna=True).   *)
(***************************************************************************)
NonNull(s) == SelectSeq(s, LAMBDA v : ~IsNaN(v))

\* the running sum of s[1..i], accumulated from the first cell on
RECURSIVE FoldAdd(_, _)
FoldAdd(s, i) == IF i = 0 THEN Num(0) ELSE FAdd(FoldAdd(s, i - 1), s[i])

RECURSIVE FoldMin(_, _)
FoldMin(s, i) ==
    IF i = Len(s) THEN s[i]
    ELSE LET m == FoldMin(s, i + 1) IN IF FLess(m, s[i]) THEN m ELSE s[i]

RECURSIVE FoldMax(_, _)
FoldMax(s, i) ==
    IF i = Len(s) THEN s[i]
    ELSE LET m == FoldMax(s, i + 1) IN IF FLess(s[i], m) THEN m ELSE s[i]

series_sum(s) == FoldAdd(NonNull(s), Len(NonNull(s)))
series_count(s) == Num(Len(NonNull(s)))
series_mean(s) ==
    IF Len(NonNull(s)) = 0 THEN NaN ELSE FDiv(series_sum(s), series_count(s))
\* the first cell taken for the smallest
series_min_first(s) == IF Len(NonNull(s)) = 0 THEN NaN ELSE NonNull(s)[1]

series_min(s) == IF Len(NonNull(s)) = 0 THEN NaN ELSE FoldMin(NonNull(s), 1)
series_max(s) == IF Len(NonNull(s)) = 0 THEN NaN ELSE FoldMax(NonNull(s), 1)

\* sample standard deviation (ddof=1): NaN for fewer than two values
series_std(s) ==
    LET xs == NonNull(s)
        n == Len(xs)
        m == series_mean(s)
        sq == [i \in 1..n |-> FMul(FSub(xs[i], m), FSub(xs[i], m))]
        var == FDiv(FoldAdd(sq, n), Num(n - 1))
    IN  IF n < 2 THEN NaN
        ELSE IF IsNum(var) THEN <<"sqrt", var[2], var[3]>>
        ELSE NaN

SupportedAggs == {"sum", "mean", "min", "max", "count", "std"}

agg_value_slip(func, s) ==
    IF func = "sum" THEN series_sum(s)
    ELSE IF func = "mean" THEN series_mean(s)
    ELSE IF func = "min" THEN series_min(s)
    ELSE IF func = "max" THEN series_min(s)
    ELSE IF func = "count" THEN series_count(s)
    ELSE series_std(s)

\* the branch of the if/elif chain taken for a supported function name
agg_value(func, s) ==
    IF func = "sum" THEN series_sum(s)
    ELSE IF func = "mean" THEN series_mean(s)
    ELSE IF func = "min" THEN series_min(s)
    ELSE IF func = "max" THEN series_max(s)
    ELSE IF func = "count" THEN series_count(s)
    ELSE series_std(s)

(***************************************************************************)
(* DataOperationsEngine.aggregations: the two nested loops from position   *)
(* (i, j) with the dict built so far, kept as the one-row frame that       *)
(* pd.DataFrame([result]) makes of it (keys in insertion order).           *)
(***************************************************************************)
agg_key(col, func) == col \o "_" \o func

RECURSIVE agg_loop(_, _, _, _, _, _)
agg_loop(df, columns, agg_funcs, i, j, result) ==
    IF i > Len(columns) THEN Returned(result)
    ELSE IF j > Len(agg_funcs) THEN agg_loop(df, columns, agg_funcs, i + 1, 1, result)
    ELSE IF agg_funcs[j] \in SupportedAggs
         THEN IF ~HasCol(df, columns[i])
              THEN Raised("Aggregation failed: " \o KeyErrorStr(columns[i]), EmptyTable)
              ELSE agg_loop(df, columns, agg_funcs, i, j + 1,
                            SetCol(result, agg_key(columns[i], agg_funcs[j]),
                                   <<agg_value(agg_funcs[j], df.data[columns[i]])>>))
    ELSE agg_loop(df, columns, agg_funcs, i, j + 1, result)

aggregations(df, columns, agg_funcs) ==
    agg_loop(df, columns, agg_funcs, 1, 1,
             [EmptyTable EXCEPT !.nrows = 1, !.index = RangeIndex(1)])

\* DataFrame.to_dict('records'): one record per row, built by zipping the
\* columns; a frame without columns zips nothing and yields the empty list
to_dict_records(df) ==
    IF Len(df.columns) = 0 THEN <<>>
    ELSE [i \in 1..df.nrows |-> [c \in Range(df.columns) |-> df.data[c][i]]]

(***************************************************************************)
(* DataOperationsEngine.filter_data.  The condition is an expression that *)
(* DataFrame.query evaluates over the whole frame.  One is written         *)
(* <<column, comparison, literal, of>>: "column comparison literal" when   *)
(* of = "", and "column comparison of.mean()" otherwise; a comparison      *)
(* outside CompareOps stands for an expression query cannot parse.         *)
(***************************************************************************)
CompareOps == {">", "<", "=="}

\* the right-hand side of the comparison, evaluated once over the frame
query_rhs(df, condition) ==
    IF condition[4] = "" THEN Num(condition[3]) ELSE series_mean(df.data[condition[4]])

\* the comparison with > read as >=
row_matches_loose(condition, v, rhs) ==
    /\ ~IsNaN(v)
    /\ ~IsNaN(rhs)
    /\ IF condition[2] = ">" THEN ~FLess(v, rhs)
       ELSE IF condition[2] = "<" THEN FLess(v, rhs)
       ELSE v = rhs

\* one row of the boolean mask: comparisons with a blank are False
row_matches(condition, v, rhs) ==
    /\ ~IsNaN(v)
    /\ ~IsNaN(rhs)
    /\ IF condition[2] = ">" THEN FLess(rhs, v)
       ELSE IF condition[2] = "<" THEN FLess(v, rhs)
       ELSE v = rhs

RECURSIVE matching_rows(_, _, _, _)
matching_rows(s, condition, rhs, i) ==
    IF i > Len(s) THEN <<>>
    ELSE (IF row_matches(condition, s[i], rhs) THEN <<i>> ELSE <<>>)
         \o matching_rows(s, condition, rhs, i + 1)

\* df.iloc[keep]
take_rows(df, keep) ==
    [df EXCEPT
        !.nrows = Len(keep),
        !.data  = [c \in Range(df.columns) |->
                      [j \in 1..Len(keep) |-> df.data[c][keep[j]]]],
        !.index = [j \in 1..Len(keep) |-> df.index[keep[j]]]]

filter_data(df, condition) ==
    IF condition[2] \notin CompareOps
    THEN Raised("Filter operation failed: invalid syntax", df)
    ELSE IF ~HasCol(df, condition[1])
    THEN Raised("Filter operation failed: name " \o KeyErrorStr(condition[1])
                    \o " is not defined", df)
    ELSE IF condition[4] # "" /\ ~HasCol(df, condition[4])
    THEN Raised("Filter operation failed: name " \o KeyErrorStr(condition[4])
                    \o " is not defined", df)
    ELSE Returned(take_rows(df, matching_rows(df.data[condition[1]], condition,
                                              query_rhs(df, condition), 1)))

(***************************************************************************)
(* DataOperationsEngine.pivot_table: pd.pivot_table groups the rows by     *)
(* (index, columns), dropping rows with a blank key, aggregates the value  *)
(* column per group, drops the groups whose aggregate is NaN (dropna) and  *)
(* unstacks the column key; a combination without a group is a NaN cell.   *)
(***************************************************************************)
RECURSIVE SortedSeq(_)
SortedSeq(S) ==
    IF S = {} THEN <<>>
    ELSE LET m == CHOOSE x \in S : \A y \in S \ {x} : FLess(x, y)
         IN  <<m>> \o SortedSeq(S \ {m})

\* header text of a column labelled by a cell value
ColLabel(v) == IF v[3] = 1 THEN ToString(v[2])
               ELSE ToString(v[2]) \o "/" \o ToString(v[3])

\* the value cells of the rows whose index key is iv, whatever their column
group_values_any(df, values, index, columns, iv, cv) ==
    LET rows == SelectSeq([i \in 1..df.nrows |-> i], LAMBDA i : df.data[index][i] = iv)
    IN  [j \in 1..Len(rows) |-> df.data[values][rows[j]]]

\* the value cells of the rows whose keys are (iv, cv), in row order
group_values(df, values, index, columns, iv, cv) ==
    LET rows == SelectSeq([i \in 1..df.nrows |-> i],
                          LAMBDA i : df.data[index][i] = iv /\ df.data[columns][i] = cv)
    IN  [j \in 1..Len(rows) |-> df.data[values][rows[j]]]

pivot_table(df, values, index, columns, aggfunc) ==
    IF ~HasCol(df, values) THEN Raised("Pivot operation failed: " \o KeyErrorStr(values), df)
    ELSE IF ~HasCol(df, index) THEN Raised("Pivot operation failed: " \o KeyErrorStr(index), df)
    ELSE IF ~HasCol(df, columns) THEN Raised("Pivot operation failed: " \o KeyErrorStr(columns), df)
    ELSE IF aggfunc \notin SupportedAggs
    THEN Raised("Pivot operation failed: 'SeriesGroupBy' object has no attribute "
                    \o KeyErrorStr(aggfunc), df)
    ELSE LET keys == {<<df.data[index][i], df.data[columns][i]>> : i \in
                         {i \in 1..df.nrows : ~IsNaN(df.data[index][i])
                                              /\ ~IsNaN(df.data[columns][i])}}
             cell(k) == agg_value(aggfunc, group_values(df, values, index, columns, k[1], k[2]))
             kept == {k \in keys : ~IsNaN(cell(k))}
             idx == SortedSeq({k[1] : k \in kept})
             cols == SortedSeq({k[2] : k \in kept})
         IN  Returned(
               [columns    |-> [j \in 1..Len(cols) |-> ColLabel(cols[j])],
                nrows      |-> Len(idx),
                data       |-> [c \in {ColLabel(cols[j]) : j \in 1..Len(cols)} |->
                                  LET cv == CHOOSE v \in Range(cols) : ColLabel(v) = c
                                  IN  [i \in 1..Len(idx) |->
                                         IF <<idx[i], cv>> \in kept THEN cell(<<idx[i], cv>>)
                                         ELSE NaN]],
                index_name |-> index,
                index      |-> idx])

\* a cell that holds a column header
Text(label) == <<"text " \o label, 0, 1>>

(***************************************************************************)
(* DataOperationsEngine.unpivot_table: pd.melt keeps the id columns and    *)
(* stacks the value columns: one row per (row, value column), value column *)
(* by value column, with the header in "variable" and the cell in "value". *)
(***************************************************************************)
unpivot_table(df, id_vars, value_vars) ==
    LET named == id_vars \o value_vars
        n == df.nrows
        row(j) == ((j - 1) % n) + 1
        var(j) == value_vars[((j - 1) \div n) + 1]
    IN  IF \E i \in 1..Len(named) : ~HasCol(df, named[i])
        THEN Raised("Unpivot operation failed: " \o KeyErrorStr(
                      named[CHOOSE i \in 1..Len(named) :
                               /\ ~HasCol(df, named[i])
                               /\ \A j \in 1..(i - 1) : HasCol(df, named[j])]), df)
        ELSE Returned(
               [columns    |-> id_vars \o <<"variable", "value">>,
                nrows      |-> n * Len(value_vars),
                data       |-> [c \in Range(id_vars) \cup {"variable", "value"} |->
                                  [j \in 1..(n * Len(value_vars)) |->
                                     IF c = "value" THEN df.data[var(j)][row(j)]
                                     ELSE IF c = "variable" THEN Text(var(j))
                                     ELSE df.data[c][row(j)]]],
                index_name |-> "",
                index      |-> RangeIndex(n * Len(value_vars))])

(***************************************************************************)
(* DataOperationsEngine.join_dataframes: pd.merge(df1, df2, on, how).  The *)
(* result has one row per pair of a left and a right row with equal keys,  *)
(* and for how = left, right, outer one row per unmatched row of the kept  *)
(* side(s), filled with NaN on the other side.  A row is a pair <<l, r>>   *)
(* of row numbers, 0 for no row.                                           *)
(***************************************************************************)
JoinKinds == {"inner", "outer", "left", "right"}

\* merge compares keys by value, and a blank key matches a blank key
keys_equal(x, y) == x = y

\* the right rows whose key equals the key of left row l, in order
right_matches(df1, df2, on, l) ==
    SelectSeq([i \in 1..df2.nrows |-> i],
              LAMBDA r : keys_equal(df1.data[on][l], df2.data[on][r]))

left_matches(df1, df2, on, r) ==
    SelectSeq([i \in 1..df1.nrows |-> i],
              LAMBDA l : keys_equal(df1.data[on][l], df2.data[on][r]))

\* rows of the join in the order of the left rows; keep: also unmatched ones
RECURSIVE left_pairs(_, _, _, _, _)
left_pairs(df1, df2, on, keep, l) ==
    IF l > df1.nrows THEN <<>>
    ELSE LET rs == right_matches(df1, df2, on, l)
         IN  (IF Len(rs) = 0 THEN (IF keep THEN <<<<l, 0>>>> ELSE <<>>)
              ELSE [j \in 1..Len(rs) |-> <<l, rs[j]>>])
             \o left_pairs(df1, df2, on, keep, l + 1)

\* rows of the join in the order of the right rows, unmatched ones kept
RECURSIVE right_pairs(_, _, _, _)
right_pairs(df1, df2, on, r) ==
    IF r > df2.nrows THEN <<>>
    ELSE LET ls == left_matches(df1, df2, on, r)
         IN  (IF Len(ls) = 0 THEN <<<<0, r>>>> ELSE [j \in 1..Len(ls) |-> <<ls[j], r>>])
             \o right_pairs(df1, df2, on, r + 1)

\* how = outer: the matched and the left-only rows, then the right-only rows
\* (the sort of the result by key is not modelled)
outer_pairs(df1, df2, on) ==
    left_pairs(df1, df2, on, TRUE, 1)
    \o SelectSeq(right_pairs(df1, df2, on, 1), LAMBDA p : p[1] = 0)

\* the header of a column of one side: suffixed when both sides have it
merged_name(c, on, others, suffix) ==
    IF c # on /\ c \in Range(others) THEN c \o suffix ELSE c

join_dataframes(df1, df2, on, how) ==
    IF ~HasCol(df1, on) \/ ~HasCol(df2, on)
    THEN Raised("Join operation failed: " \o KeyErrorStr(on), df1)
    ELSE IF how \notin JoinKinds
    THEN Raised("Join operation failed: do not recognize join method " \o how, df1)
    ELSE LET pairs == IF how = "inner" THEN left_pairs(df1, df2, on, FALSE, 1)
                      ELSE IF how = "left" THEN left_pairs(df1, df2, on, TRUE, 1)
                      ELSE IF how = "right" THEN right_pairs(df1, df2, on, 1)
                      ELSE outer_pairs(df1, df2, on)
             rest == SelectSeq(df2.columns, LAMBDA c : c # on)
             lcols == [j \in 1..Len(df1.columns) |->
                          merged_name(df1.columns[j], on, rest, "_x")]
             rcols == [j \in 1..Len(rest) |-> merged_name(rest[j], on, df1.columns, "_y")]
             lcell(c, p) == IF p[1] # 0 THEN df1.data[c][p[1]]
                            ELSE IF c = on THEN df2.data[on][p[2]] ELSE NaN
             rcell(c, p) == IF p[2] # 0 THEN df2.data[c][p[2]] ELSE NaN
         IN  Returned(
               [columns    |-> lcols \o rcols,
                nrows      |-> Len(pairs),
                data       |-> [h \in Range(lcols) \cup Range(rcols) |->
                                  [j \in 1..Len(pairs) |->
                                     IF h \in Range(lcols)
                                     THEN lcell(df1.columns[CHOOSE k \in 1..Len(lcols) :
                                                               lcols[k] = h], pairs[j])
                                     ELSE rcell(rest[CHOOSE k \in 1..Len(rcols) :
                                                        rcols[k] = h], pairs[j])]],
                index_name |-> "",
                index      |-> RangeIndex(Len(pairs))])

(***************************************************************************)
(* DataOperationsEngine.date_operations.  A date cell holds a day number   *)
(* (days since 1970-01-01, at midnight); a text cell holding a date in ISO *)
(* form holds the day number and its UTC offset in hours (0: none          *)
(* written).                                                               *)
(***************************************************************************)
Date(n) == <<"date", n, 0>>
DateText(n, off) == <<"text date", n, off>>
NaT == <<"nat", 0, 0>>

\* one value alone is read as a date by pd.to_datetime: a date, a date in
\* text, or a finite number (nanoseconds since 1970-01-01)
parses(c) == c[1] \in {"date", "text date"} \/ IsNum(c)

\* the UTC offsets of the dates of a column
offsets(s) == {s[i][3] : i \in {j \in 1..Len(s) : s[j][1] \in {"date", "text date"}}}
    \cup {0 : i \in {j \in 1..Len(s) : IsNum(s[j])}}

\* pd.to_datetime(series), errors="raise": a value that is no date raises;
\* blanks become NaT; dates that agree on the offset make a datetime64
\* column. Dates that do not agree on it make a column of datetime objects
\* (dtype object) or raise, depending on the pandas installed and on the
\* values (object_result).
to_datetime(s, object_result) ==
    LET one(c) == IF IsNaN(c) THEN NaT
                  ELSE IF IsNum(c)
                  THEN Date(((c[2] \div c[3]) \div 1000000) \div 86400000)
                  ELSE <<"date", c[2], c[3]>>
        obj(c) == IF IsNaN(c) THEN NaT ELSE <<"datetime object", c[2], c[3]>>
    IN  IF \E i \in 1..Len(s) : ~IsNaN(s[i]) /\ ~parses(s[i])
        THEN Raised("Unknown datetime string format, unable to parse", s)
        ELSE IF Cardinality(offsets(s)) <= 1
        THEN Returned([i \in 1..Len(s) |-> one(s[i])])
        ELSE IF object_result
        THEN Returned([i \in 1..Len(s) |-> obj(s[i])])
        ELSE Raised("Mixed timezones detected", s)

\* Series.dt exists for datetime64 columns only
is_datetimelike(s) == \A i \in 1..Len(s) : s[i][1] \in {"date", "nat"}

\* year, month and day of a day number (proleptic Gregorian calendar)
civil_from_days(n) ==
    LET z   == n + 719468
        era == z \div 146097
        doe == z - era * 146097
        yoe == (doe - doe \div 1460 + doe \div 36524 - doe \div 146096) \div 365
        doy == doe - (365 * yoe + yoe \div 4 - yoe \div 100)
        mp  == (5 * doy + 2) \div 153
        m   == IF mp < 10 THEN mp + 3 ELSE mp - 9
    IN  [year  |-> yoe + era * 400 + (IF m <= 2 THEN 1 ELSE 0),
         month |-> m,
         day   |-> doy - (153 * mp + 2) \div 5 + 1]

\* Series.dt.<field>: NaN where the date is NaT; Monday is day 0 of the
\* week and 1970-01-01 was a Thursday
dt(s, field) ==
    [i \in 1..Len(s) |->
        IF s[i] = NaT THEN NaN
        ELSE IF field = "dayofweek" THEN Num((s[i][2] + 3) % 7)
        ELSE Num(civil_from_days(s[i][2])[field])]

DateFields == <<"year", "month", "day", "dayofweek">>

\* the assignments of lines 183-186, one after the other
RECURSIVE add_fields(_, _, _)
add_fields(df, date_col, k) ==
    IF k = 0 THEN df
    ELSE LET d == add_fields(df, date_col, k - 1)
         IN  SetCol(d, date_col \o "_" \o DateFields[k], dt(d.data[date_col], DateFields[k]))

\* the frame is changed in place: what the caller's table holds when the
\* call raises is the val of the result
date_operations(df, date_col, object_result) ==
    IF ~HasCol(df, date_col)
    THEN Raised("Date operation failed: " \o KeyErrorStr(date_col), df)
    ELSE LET conv == to_datetime(df.data[date_col], object_result)
             d1 == SetCol(df, date_col, conv.val)
         IN  IF conv.exc # ""
             THEN Raised("Date operation failed: " \o conv.exc, df)
             ELSE IF ~is_datetimelike(conv.val)
             THEN Raised("Date operation failed: Can only use .dt accessor "
                         \o "with datetimelike values", d1)
             ELSE Returned(add_fields(d1, date_col, Len(DateFields)))

\* DataFrame.reset_index(): the named index becomes the first column
reset_index(df) ==
    [columns    |-> <<df.index_name>> \o df.columns,
     nrows      |-> df.nrows,
     data       |-> [c \in Range(df.columns) \cup {df.index_name} |->
                        IF c = df.index_name THEN df.index ELSE df.data[c]],
     index_name |-> "",
     index      |-> RangeIndex(df.nrows)]

(***************************************************************************)
(* The file system.  A file is absent, holds bytes that are no workbook    *)
(* ("corrupt"; a file just truncated by open(.., "wb") is one), or holds a *)
(* workbook ("book") of one sheet, Sheet1, with a table.                   *)
(***************************************************************************)
Absent == [st |-> "absent", table |-> EmptyTable]
Corrupt == [st |-> "corrupt", table |-> EmptyTable]
Book(t) == [st |-> "book", table |-> t]

UPLOAD_DIR == "uploads"
OUTPUT_DIR == "outputs"

\* Path / name
PathJoin(dir, name) == dir \o "/" \o name

\* datetime.now().strftime('%Y%m%d_%H%M%S'): the clock cut to whole seconds
strftime(now) == ToString(now \div TicksPerSecond)

OutputPrefixes == {"math_result", "filtered", "pivot"}
output_path(prefix, now) == PathJoin(OUTPUT_DIR, prefix \o "_" \o strftime(now) \o ".xlsx")

\* a client file name is <<stem, extension>>
FileName(f) == f[1] \o f[2]
\* file.filename.endswith(('.xlsx', '.xls'))
HasExcelExtension(f) == f[2] \in {".xlsx", ".xls"}

\* StarletteHTTPException.__str__
StrHTTPException(status_code, detail) == ToString(status_code) \o ": " \o detail

\* DataFrame.to_excel(index=False): the index is not written, so the sheet
\* read back has the default index
to_excel(df) == [df EXCEPT !.index_name = "", !.index = RangeIndex(df.nrows)]

\* ExcelDataHandler.read_excel: any failure of pd.read_excel is raised as
\* HTTPException(400)
read_excel(files, file_path, sheet_name) ==
    LET f == files[file_path]
        fail(why) == Raised(StrHTTPException(400, "Failed to read Excel file: " \o why),
                            EmptyTable)
    IN  IF f.st = "absent"
        THEN fail("[Errno 2] No such file or directory: " \o KeyErrorStr(file_path))
        ELSE IF f.st = "corrupt" THEN fail("File is not a zip file")
        ELSE IF sheet_name # "" /\ sheet_name # "Sheet1"
        THEN fail("Worksheet named " \o KeyErrorStr(sheet_name) \o " not found")
        ELSE Returned(f.table)

\* ExcelDataHandler.get_sheet_names: load_workbook failures are raised as
\* HTTPException(400)
get_sheet_names(files, file_path) ==
    LET f == files[file_path]
        fail(why) == Raised(StrHTTPException(400, "Failed to read Excel file: " \o why), <<>>)
    IN  IF f.st = "absent"
        THEN fail("[Errno 2] No such file or directory: " \o KeyErrorStr(file_path))
        ELSE IF f.st = "corrupt" THEN fail("File is not a zip file")
        ELSE Returned(<<"Sheet1">>)

\* ExcelDataHandler.write_excel: writable says whether the target can be
\* opened for writing; a failure is raised as HTTPException(500) and leaves
\* the directory as it was
write_excel(files, df, file_path, writable) ==
    IF writable
    THEN Returned([files EXCEPT ![file_path] = Book(to_excel(df))])
    ELSE Raised(StrHTTPException(500, "Failed to write Excel file: [Errno 13] "
                    \o "Permission denied: " \o KeyErrorStr(file_path)), files)

\* the two variables read in the other order
api_key_swapped(environ) ==
    IF environ.GOOGLE_API_KEY # "" THEN environ.GOOGLE_API_KEY
    ELSE environ.GEMINI_API_KEY

\* get_llm: the credential is the first of the two variables that is set
\* and not empty ("" stands for unset or empty)
api_key(environ) ==
    IF environ.GEMINI_API_KEY # "" THEN environ.GEMINI_API_KEY
    ELSE environ.GOOGLE_API_KEY

\* a get_llm that builds the client with whatever it found
get_llm_unchecked(environ) ==
    Returned(api_key(environ))

get_llm(environ) ==
    IF api_key(environ) = ""
    THEN Raised(StrHTTPException(500, "LLM initialization failed: GEMINI_API_KEY or "
                    \o "GOOGLE_API_KEY not found in environment"), "")
    ELSE Returned(api_key(environ))

\* health_check: gemini_key, read as get_llm reads its api_key
gemini_key(environ) ==
    IF environ.GEMINI_API_KEY # "" THEN environ.GEMINI_API_KEY
    ELSE environ.GOOGLE_API_KEY

(***************************************************************************)
(* Inputs.                                                                 *)
(***************************************************************************)
\* a table with the default index from its columns and their cells
MkTable(cols, cells) ==
    [columns |-> cols, nrows |-> Len(cells[cols[1]]), data |-> cells,
     index_name |-> "", index |-> RangeIndex(Len(cells[cols[1]]))]

\* the tables found in uploaded workbooks
SampleTables ==
    { MkTable(<<"k", "a", "b">>,
              [k |-> <<Num(0), Num(1)>>, a |-> <<Num(1), Num(2)>>, b |-> <<Num(0), Num(2)>>]),
      MkTable(<<"k", "a", "b">>,
              [k |-> <<Num(1)>>, a |-> <<NaN>>, b |-> <<Num(1)>>]) }

\* the tables the engine is exercised on: columns a and b, up to MaxRows rows
CellVals == {NaN} \cup {Num(n) : n \in 0..MaxVal}
Columns(n) == [1..n -> CellVals]
EngineTables ==
    UNION { { MkTable(<<"a", "b">>, [a |-> ca, b |-> cb]) :
                ca \in Columns(n), cb \in Columns(n) } : n \in 0..MaxRows }

UploadNames == {<<"data", ".xlsx">>, <<"notes", ".txt">>}
StoredFiles == {Corrupt} \cup {Book(t) : t \in SampleTables}
\* the bodies clients upload: a workbook, or bytes that are none
UploadContents == {Corrupt, Book(CHOOSE t \in SampleTables : t.nrows = 2)}
DataPath == PathJoin(UPLOAD_DIR, FileName(<<"data", ".xlsx">>))
UploadPaths == {PathJoin(UPLOAD_DIR, FileName(f)) : f \in UploadNames}
OutputPaths == {output_path(p, t) : p \in OutputPrefixes, t \in 0..MaxClock}
Paths == UploadPaths \cup OutputPaths

NoArgs ==
    [kind |-> "", file_path |-> "", sheet_name |-> "", operation |-> "",
     col1 |-> "", col2 |-> "", result_col |-> "", columns |-> <<>>,
     functions |-> <<>>, condition |-> <<"", "", 0, "">>, values |-> "",
     index |-> "", pivot_columns |-> "", aggfunc |-> "", query |-> "",
     filename |-> <<"", "">>, content |-> Absent]

MathArgs(path, sheet, op, c1, c2, rc) ==
    [NoArgs EXCEPT !.kind = "math", !.file_path = path, !.sheet_name = sheet,
                   !.operation = op, !.col1 = c1, !.col2 = c2, !.result_col = rc]
AggregateArgs(path, sheet, cols, funcs) ==
    [NoArgs EXCEPT !.kind = "aggregate", !.file_path = path, !.sheet_name = sheet,
                   !.columns = cols, !.functions = funcs]
FilterArgs(path, sheet, cond) ==
    [NoArgs EXCEPT !.kind = "filter", !.file_path = path, !.sheet_name = sheet,
                   !.condition = cond]
PivotArgs(path, sheet, v, i, c, f) ==
    [NoArgs EXCEPT !.kind = "pivot", !.file_path = path, !.sheet_name = sheet,
                   !.values = v, !.index = i, !.pivot_columns = c, !.aggfunc = f]
AnalyzeArgs(path, sheet, q) ==
    [NoArgs EXCEPT !.kind = "analyze", !.file_path = path, !.sheet_name = sheet,
                   !.query = q]
UploadArgs(name, content) ==
    [NoArgs EXCEPT !.kind = "upload", !.filename = name, !.content = content]

HealthArgs == [NoArgs EXCEPT !.kind = "health"]

\* the requests clients send to the service
ServiceRequests ==
    {MathArgs(DataPath, "", op, c[1], c[2], c[3]) :
        op \in {"multiply", "power"},
        c \in {<<"a", "b", "c">>, <<"zz", "b", "c">>}}
    \cup {AggregateArgs(DataPath, "", c, f) :
        c \in {<<"a">>, <<"a", "zz">>},
        f \in {<<"mean", "max">>, <<"median">>}}
    \cup {FilterArgs(DataPath, "", c) :
        c \in {<<"a", ">", 1, "">>, <<"zz", ">", 0, "">>, <<"a", "?", 0, "">>}}
    \cup {PivotArgs(DataPath, sh, "b", "k", "a", "mean") : sh \in {"", "Sheet1", "Nope"}}
    \cup {PivotArgs(DataPath, "", "b", "k", "a", "bogus")}
    \cup {AnalyzeArgs(p, "", "average of b by k") : p \in UploadPaths}
    \cup {UploadArgs(n, c) : n \in UploadNames, c \in UploadContents}

\* columns whose sums need rounding: cells 1, 2^MantissaBits or blank
FloatTables ==
    UNION { { MkTable(<<"a">>, [a |-> ca]) : ca \in [1..n -> {NaN, Num(1), Num(2^MantissaBits)}] } : n \in 0..FloatRows }

\* tables to pivot: an index column i and a pivot column c with keys 0, 1 or
\* blank, and a value column v; n rows
PivotKeys == {NaN, Num(0), Num(1)}
PivotTables(n) ==
    { MkTable(<<"i", "c", "v">>, [i |-> ci, c |-> cc, v |-> cv]) :
        ci \in [1..n -> PivotKeys], cc \in [1..n -> PivotKeys],
        cv \in [1..n -> CellVals] }

\* columns of dates: date cells, or dates in text without offset, or dates
\* in text with the offset +01:00 or +02:00, each with blanks, and the text
\* columns with text that is no date; the days are 1970-01-01 and
\* 2024-03-01
DateCells ==
    LET days == {0, 19783}
    IN  { {NaN} \cup {Date(n) : n \in days},
          {NaN, Text("n/a")} \cup {DateText(n, 0) : n \in days},
          {NaN, Text("n/a")} \cup {DateText(n, off) : n \in days, off \in 1..2} }
DateTables ==
    UNION { { MkTable(<<"d", "a">>, [c \in {"d", "a"} |->
                         IF c = "d" THEN cd ELSE [i \in 1..n |-> Num(i)]]) :
                cd \in UNION {[1..n -> cells] : cells \in DateCells} } : n \in 0..DateRows }

\* tables to join: a key column k with keys 0, 1 or blank, and a column that
\* numbers the rows
JoinTables(other) ==
    UNION { { MkTable(<<"k", other>>,
                      [c \in {"k", other} |->
                         IF c = "k" THEN ck ELSE [i \in 1..n |-> Num(i)]]) :
                ck \in [1..n -> PivotKeys] } : n \in 0..JoinRows }

\* the filter conditions exercised on every engine table: a > 0, b == 1,
\* a < 1, b > a.mean()
FilterConditions ==
    {<<"a", ">", 0, "">>, <<"b", "==", 1, "">>, <<"a", "<", 1, "">>, <<"b", ">", 0, "a">>}

\* the engine calls of the dispatcher exercised on every engine table
EngineRequests ==
    {MathArgs(DataPath, "", op, "a", "b", "c") : op \in SupportedOps \cup {"power"}}
    \cup {MathArgs(DataPath, "", op, c[1], c[2], c[3]) :
        op \in {"subtract", "divide"},
        c \in {<<"a", "a", "c">>, <<"a", "b", "a">>, <<"b", "a", "a">>}}
    \cup {MathArgs(DataPath, "", op, c[1], c[2], c[3]) :
        op \in {"add", "power"},
        c \in {<<"zz", "b", "c">>, <<"a", "zz", "c">>}}
    \cup {AggregateArgs(DataPath, "", c, f) :
        c \in {<<"b", "a">>, <<"a", "a">>, <<"a", "zz">>},
        f \in {<<"mean", "max">>, <<"min", "count", "std">>, <<"median">>,
               <<"sum", "median">>, <<"max", "sum", "max">>}}
    \cup {FilterArgs(DataPath, "", c) : c \in FilterConditions}

\* the provider credentials in the process environment
Environments ==
    {[GEMINI_API_KEY |-> "", GOOGLE_API_KEY |-> o] : o \in {"", "key-google"}}

\* every way the two variables are set or not
AllEnvironments ==
    {[GEMINI_API_KEY |-> g, GOOGLE_API_KEY |-> o] :
        g \in {"", "key-gemini"}, o \in {"", "key-google"}}

\* the requests that need the provider credential, or report on it
AgentRequests ==
    {AnalyzeArgs(p, "", "average of b by k") : p \in UploadPaths} \cup {HealthArgs}

\* what the external agent does with a query: it answers, or it raises. The
\* agent is built on the handler's own frame with allow_dangerous_code=True
\* and runs the code the model writes against it, so it may also have
\* changed the frame in place (df.drop(..., inplace=True)) when it answers
AgentOutcomes == {"answer", "raise", "answer, frame changed in place"}

(***************************************************************************)
(* State.                                                                  *)
(***************************************************************************)
VARIABLES
    fs,        \* the upload and output directories: path -> file
    environ,   \* os.environ
    clock,     \* datetime.now(), in ticks
    loop,      \* the request whose handler the event loop is running, or 0
    pc,        \* where each request's handler stands
    args,      \* the parameters of each request
    loaded,    \* the table each request loaded, as read_excel returned it
    df,        \* each handler's df
    res,       \* each handler's df_result / df_filtered / df_pivot
    answer,    \* each analyze handler's result of the agent
    llm,       \* the api key of the client get_llm gave each handler, "" for none
    out_path,  \* each handler's output_path
    wrote,     \* the paths each request has written
    resp,      \* the response each request got
    trace,     \* the steps each request went through
    held       \* what a direct caller of the engine holds: its call, the results

vars == <<fs, environ, clock, loop, pc, args, loaded, df, res, answer, llm,
          out_path, wrote, resp, trace, held>>

\* a caller of the engine that has made no call
NoCall == [call |-> NoArgs, out |-> <<>>]

Req == 1..NumReq

NoResponse == [status |-> "", status_code |-> 0, detail |-> "", result_file |-> "",
               body |-> <<>>]

InitRequests ==
    /\ loop = 0
    /\ pc = [r \in Req |-> "idle"]
    /\ args = [r \in Req |-> NoArgs]
    /\ loaded = [r \in Req |-> EmptyTable]
    /\ df = [r \in Req |-> EmptyTable]
    /\ res = [r \in Req |-> EmptyTable]
    /\ answer = [r \in Req |-> ""]
    /\ llm = [r \in Req |-> ""]
    /\ out_path = [r \in Req |-> ""]
    /\ wrote = [r \in Req |-> {}]
    /\ resp = [r \in Req |-> NoResponse]
    /\ trace = [r \in Req |-> <<>>]

\* the service starts with the directories as earlier runs left them: the
\* upload directory may hold data.xlsx, the output directory is empty
Init ==
    /\ fs \in {[p \in Paths |-> IF p = DataPath THEN f ELSE Absent] :
                  f \in {Absent} \cup StoredFiles}
    /\ environ \in Environments
    /\ clock = 0
    /\ InitRequests
    /\ held = NoCall

(***************************************************************************)
(* The request handlers.  The handlers are coroutines of one event loop:   *)
(* a handler runs from one suspension point to the next without any other  *)
(* handler running in between, and only upload_file has a suspension       *)
(* point (await file.read()).  Time passes at any moment; the model        *)
(* advances the clock where a handler reads it.                            *)
(***************************************************************************)

\* the handler of request r moves on to the given step
Goto(r, step) ==
    /\ pc' = [pc EXCEPT ![r] = step]
    /\ trace' = [trace EXCEPT ![r] = Append(@, step)]

\* an except clause that logs the error and answers nothing
Fail_silent(r, message) ==
    /\ Goto(r, "Failed")
    /\ resp' = resp
    /\ loop' = 0

\* the handler's "except Exception as e": every exception raised in the try
\* block, HTTPException included, is answered as
\* HTTPException(status_code=500, detail=str(e))
Fail(r, message) ==
    /\ Goto(r, "Failed")
    /\ resp' = [resp EXCEPT ![r] = [NoResponse EXCEPT !.status = "error",
                                                      !.status_code = 500,
                                                      !.detail = message]]
    /\ loop' = 0

\* a request arrives and the event loop enters its handler
Receive(r, requests) ==
    /\ pc[r] = "idle"
    /\ loop = 0
    /\ \A q \in Req : q < r => pc[q] # "idle"
    /\ \E a \in requests : args' = [args EXCEPT ![r] = a]
    /\ loop' = r
    /\ Goto(r, "Received")
    /\ UNCHANGED <<fs, environ, held, llm, clock, loaded, df, res, answer, out_path, wrote, resp>>

\* a handler that leaves the extension of an upload unchecked
Validate_lax(r) ==
    /\ pc[r] = "Received"
    /\ loop = r
    /\ args[r].kind # "health"
    /\ IF args[r].kind = "analyze" /\ fs[args[r].file_path].st = "absent"
       THEN Fail(r, StrHTTPException(404, "File not found"))
       ELSE Goto(r, "Validated") /\ UNCHANGED <<loop, resp>>
    /\ UNCHANGED <<fs, environ, held, llm, clock, args, loaded, df, res, answer, out_path, wrote>>

\* upload_file checks the extension, analyze_data checks that the file
\* exists; the other handlers check nothing of their own
Validate(r) ==
    /\ pc[r] = "Received"
    /\ loop = r
    /\ args[r].kind # "health"
    /\ IF args[r].kind = "upload" /\ ~HasExcelExtension(args[r].filename)
       THEN Fail(r, StrHTTPException(400, "Only Excel files (.xlsx, .xls) are supported"))
       ELSE IF args[r].kind = "analyze" /\ fs[args[r].file_path].st = "absent"
       THEN Fail(r, StrHTTPException(404, "File not found"))
       ELSE Goto(r, "Validated") /\ UNCHANGED <<loop, resp>>
    /\ UNCHANGED <<fs, environ, held, llm, clock, args, loaded, df, res, answer, out_path, wrote>>

\* upload_file: open(file_path, "wb") creates or truncates the file, then
\* the handler awaits the body of the upload
OpenUpload(r) ==
    /\ pc[r] = "Validated"
    /\ loop = r
    /\ args[r].kind = "upload"
    /\ LET path == PathJoin(UPLOAD_DIR, FileName(args[r].filename))
       IN  \E writable \in BOOLEAN :
             IF writable
             THEN /\ fs' = [fs EXCEPT ![path] = Corrupt]
                  /\ wrote' = [wrote EXCEPT ![r] = @ \cup {path}]
                  /\ loop' = 0
                  /\ Goto(r, "Saving")
                  /\ UNCHANGED resp
             ELSE /\ Fail(r, "[Errno 13] Permission denied: " \o KeyErrorStr(path))
                  /\ UNCHANGED <<fs, wrote>>
    /\ UNCHANGED <<environ, held, llm, clock, args, loaded, df, res, answer, out_path>>

\* upload_file resumes with the body and writes it
SaveUpload(r) ==
    /\ pc[r] = "Saving"
    /\ loop = 0
    /\ loop' = r
    /\ fs' = [fs EXCEPT ![PathJoin(UPLOAD_DIR, FileName(args[r].filename))] =
                            args[r].content]
    /\ Goto(r, "Saved")
    /\ UNCHANGED <<environ, held, llm, clock, args, loaded, df, res, answer, out_path, wrote, resp>>

\* the file a handler reads its table from
SourcePath(a) ==
    IF a.kind = "upload" THEN PathJoin(UPLOAD_DIR, FileName(a.filename)) ELSE a.file_path

\* a handler that keeps working on the frame an earlier request left behind
LoadTable_shared(r) ==
    /\ pc[r] = IF args[r].kind = "upload" THEN "Saved" ELSE "Validated"
    /\ loop = r
    /\ LET path == SourcePath(args[r])
           got == read_excel(fs, path, args[r].sheet_name)
           earlier == {q \in Req : q < r /\ SourcePath(args[q]) = path /\ df[q].nrows > 0}
           frame == IF earlier = {} THEN got.val ELSE df[CHOOSE q \in earlier : TRUE]
       IN  IF got.exc # ""
           THEN Fail(r, got.exc) /\ UNCHANGED <<loaded, df>>
           ELSE /\ loaded' = [loaded EXCEPT ![r] = frame]
                /\ df' = [df EXCEPT ![r] = frame]
                /\ Goto(r, "TableLoaded")
                /\ UNCHANGED <<loop, resp>>
    /\ UNCHANGED <<fs, environ, held, llm, clock, args, res, answer, out_path, wrote>>

\* ExcelDataHandler.read_excel (upload_file: after get_sheet_names)
LoadTable(r) ==
    /\ pc[r] = IF args[r].kind = "upload" THEN "Saved" ELSE "Validated"
    /\ loop = r
    /\ LET path == SourcePath(args[r])
           names == get_sheet_names(fs, path)
           got == read_excel(fs, path, args[r].sheet_name)
       IN  IF args[r].kind = "upload" /\ names.exc # ""
           THEN Fail(r, names.exc) /\ UNCHANGED <<loaded, df>>
           ELSE IF got.exc # ""
           THEN Fail(r, got.exc) /\ UNCHANGED <<loaded, df>>
           ELSE /\ loaded' = [loaded EXCEPT ![r] = got.val]
                /\ df' = [df EXCEPT ![r] = got.val]
                /\ Goto(r, "TableLoaded")
                /\ UNCHANGED <<loop, resp>>
    /\ UNCHANGED <<fs, environ, held, llm, clock, args, res, answer, out_path, wrote>>

\* the call into DataOperationsEngine each operation handler makes
engine_call(a, d) ==
    IF a.kind = "math" THEN basic_math(d, a.operation, a.col1, a.col2, a.result_col)
    ELSE IF a.kind = "aggregate" THEN aggregations(d, a.columns, a.functions)
    ELSE IF a.kind = "filter" THEN filter_data(d, a.condition)
    ELSE pivot_table(d, a.values, a.index, a.pivot_columns, a.aggfunc)

OperationKinds == {"math", "aggregate", "filter", "pivot"}
PersistingKinds == {"math", "filter", "pivot"}

Dispatch(r) ==
    /\ pc[r] = "TableLoaded"
    /\ loop = r
    /\ args[r].kind \in OperationKinds
    /\ LET got == engine_call(args[r], df[r])
       IN  IF got.exc # ""
           THEN Fail(r, got.exc) /\ UNCHANGED <<df, res>>
           ELSE /\ res' = [res EXCEPT ![r] = got.val]
                \* basic_math assigns the column into df itself
                /\ df' = [df EXCEPT ![r] = IF args[r].kind = "math" THEN got.val ELSE @]
                /\ Goto(r, "Dispatched")
                /\ UNCHANGED <<loop, resp>>
    /\ UNCHANGED <<fs, environ, held, llm, clock, args, loaded, answer, out_path, wrote>>

\* analyze_data: get_llm()
InitLLM(r) ==
    /\ pc[r] = "TableLoaded"
    /\ loop = r
    /\ args[r].kind = "analyze"
    /\ IF get_llm(environ).exc # ""
       THEN Fail(r, get_llm(environ).exc) /\ UNCHANGED llm
       ELSE /\ llm' = [llm EXCEPT ![r] = get_llm(environ).val]
            /\ Goto(r, "LLMReady")
            /\ UNCHANGED <<loop, resp>>
    /\ UNCHANGED <<fs, environ, held, clock, args, loaded, df, res, answer, out_path, wrote>>

\* NLQueryProcessor.process_query builds the agent and calls agent.invoke:
\* a synchronous call, so the handler keeps the event loop while the
\* provider works
InvokeAgent(r) ==
    /\ pc[r] = "LLMReady"
    /\ loop = r
    /\ Goto(r, "AgentCalled")
    /\ UNCHANGED <<fs, environ, held, llm, clock, loop, args, loaded, df, res, answer,
                   out_path, wrote, resp>>

\* agent.invoke returns, or raises: whatever it raises is raised on as
\* ValueError
Bridge(r) ==
    /\ pc[r] = "AgentCalled"
    /\ loop = r
    /\ \E outcome \in AgentOutcomes :
         IF outcome = "raise"
         THEN Fail(r, "Failed to process query: provider error") /\ UNCHANGED <<answer, df>>
         ELSE /\ answer' = [answer EXCEPT ![r] = outcome]
              /\ df' = [df EXCEPT ![r] =
                            IF outcome = "answer" THEN @
                            ELSE take_rows(@, [j \in 1..(IF @.nrows = 0 THEN 0 ELSE @.nrows - 1) |-> j])]
              /\ Goto(r, "Bridged")
              /\ UNCHANGED <<loop, resp>>
    /\ UNCHANGED <<fs, environ, held, llm, clock, args, loaded, res, out_path, wrote>>

OutputPrefix(kind) ==
    IF kind = "math" THEN "math_result" ELSE IF kind = "filter" THEN "filtered" ELSE "pivot"

\* the table a handler hands to write_excel
OutputTable(kind, result) == IF kind = "pivot" THEN reset_index(result) ELSE result

\* a handler that saves the result over the spreadsheet it read
Persist_inplace(r) ==
    /\ pc[r] = "Dispatched"
    /\ loop = r
    /\ args[r].kind \in PersistingKinds
    /\ \E now \in clock..MaxClock, writable \in BOOLEAN :
         LET path == args[r].file_path
             got == write_excel(fs, OutputTable(args[r].kind, res[r]), path, writable)
         IN  /\ clock' = now
             /\ IF got.exc # ""
                THEN Fail(r, got.exc) /\ UNCHANGED <<fs, out_path, wrote>>
                ELSE /\ fs' = got.val
                     /\ out_path' = [out_path EXCEPT ![r] = path]
                     /\ wrote' = [wrote EXCEPT ![r] = @ \cup {path}]
                     /\ Goto(r, "Persisted")
                     /\ UNCHANGED <<loop, resp>>
    /\ UNCHANGED <<environ, held, llm, args, loaded, df, res, answer>>

\* "Save result": the output path is named after the current second
Persist(r) ==
    /\ pc[r] = "Dispatched"
    /\ loop = r
    /\ args[r].kind \in PersistingKinds
    /\ \E now \in clock..MaxClock, writable \in BOOLEAN :
         LET path == output_path(OutputPrefix(args[r].kind), now)
             got == write_excel(fs, OutputTable(args[r].kind, res[r]), path, writable)
         IN  /\ clock' = now
             /\ IF got.exc # ""
                THEN Fail(r, got.exc) /\ UNCHANGED <<fs, out_path, wrote>>
                ELSE /\ fs' = got.val
                     /\ out_path' = [out_path EXCEPT ![r] = path]
                     /\ wrote' = [wrote EXCEPT ![r] = @ \cup {path}]
                     /\ Goto(r, "Persisted")
                     /\ UNCHANGED <<loop, resp>>
    /\ UNCHANGED <<environ, held, llm, args, loaded, df, res, answer>>

\* DataFrame.head(n)
head(d, n) == take_rows(d, [i \in 1..(IF d.nrows < n THEN d.nrows ELSE n) |-> i])

\* df[[c1, c2, ...]]: a KeyError if one of the names is no column
select_columns(d, cols) ==
    IF \E i \in 1..Len(cols) : ~HasCol(d, cols[i])
    THEN Raised("\"[" \o KeyErrorStr(cols[CHOOSE i \in 1..Len(cols) :
                                           /\ ~HasCol(d, cols[i])
                                           /\ \A j \in 1..(i - 1) : HasCol(d, cols[j])])
                     \o "] not in index\"", d)
    ELSE Returned([d EXCEPT !.columns = cols,
                            !.data = [c \in Range(cols) |-> d.data[c]]])

SAMPLE_ROWS == 10

\* the dict each handler builds for its return statement
response_body(a, d, result, said, path) ==
    IF a.kind = "math"
    THEN LET sel == select_columns(result, <<a.col1, a.col2, a.result_col>>)
         IN  IF sel.exc # "" THEN Raised(sel.exc, <<>>)
             ELSE Returned([operation |-> a.operation, result_file |-> path,
                            sample_results |-> to_dict_records(head(sel.val, SAMPLE_ROWS))])
    ELSE IF a.kind = "aggregate"
    THEN LET recs == to_dict_records(result)
         IN  IF Len(recs) = 0 THEN Raised("list index out of range", <<>>)
             ELSE Returned([aggregations |-> recs[1]])
    ELSE IF a.kind = "filter"
    THEN Returned([condition |-> a.condition, rows_before |-> d.nrows,
                   rows_after |-> result.nrows, result_file |-> path,
                   sample_results |-> to_dict_records(head(result, SAMPLE_ROWS))])
    ELSE IF a.kind = "pivot"
    THEN Returned([result_file |-> path,
                   pivot_shape |-> <<result.nrows, Len(result.columns)>>,
                   sample_results |-> head(result, SAMPLE_ROWS)])
    ELSE IF a.kind = "analyze"
    THEN Returned([query |-> a.query, result |-> said,
                   rows_analyzed |-> d.nrows, columns |-> d.columns])
    ELSE Returned([filename |-> FileName(a.filename),
                   file_path |-> PathJoin(UPLOAD_DIR, FileName(a.filename)),
                   sheets |-> <<"Sheet1">>, rows |-> d.nrows, columns |-> d.columns])

\* the step a handler builds its response from
LastStep(kind) ==
    IF kind \in PersistingKinds THEN "Persisted"
    ELSE IF kind = "aggregate" THEN "Dispatched"
    ELSE IF kind = "analyze" THEN "Bridged"
    ELSE "TableLoaded"

Serialize(r) ==
    /\ args[r].kind # ""
    /\ pc[r] = LastStep(args[r].kind)
    /\ loop = r
    /\ LET got == response_body(args[r], df[r], res[r], answer[r], out_path[r])
       IN  IF got.exc # ""
           THEN Fail(r, got.exc)
           ELSE /\ resp' = [resp EXCEPT ![r] = [NoResponse EXCEPT
                                                  !.result_file = out_path[r],
                                                  !.body = got.val]]
                /\ Goto(r, "ResultSerialized")
                /\ UNCHANGED loop
    /\ UNCHANGED <<fs, environ, held, llm, clock, args, loaded, df, res, answer, out_path, wrote>>

\* the handler returns: the response goes out with "status": "success"
Respond(r) ==
    /\ pc[r] = "ResultSerialized"
    /\ loop = r
    /\ resp' = [resp EXCEPT ![r] = [@ EXCEPT !.status = "success", !.status_code = 200]]
    /\ loop' = 0
    /\ Goto(r, "Responded")
    /\ UNCHANGED <<fs, environ, held, llm, clock, args, loaded, df, res, answer, out_path, wrote>>

Next ==
    \/ \E r \in Req : Receive(r, ServiceRequests)
    \/ \E r \in Req : Validate(r)
    \/ \E r \in Req : OpenUpload(r)
    \/ \E r \in Req : SaveUpload(r)
    \/ \E r \in Req : LoadTable(r)
    \/ \E r \in Req : Dispatch(r)
    \/ \E r \in Req : InitLLM(r)
    \/ \E r \in Req : InvokeAgent(r)
    \/ \E r \in Req : Bridge(r)
    \/ \E r \in Req : Persist(r)
    \/ \E r \in Req : Serialize(r)
    \/ \E r \in Req : Respond(r)

Spec == Init /\ [][Next]_vars

(***************************************************************************)
(* The dispatcher on its own: one operation request, already loaded, over  *)
(* every engine table and every engine call.                               *)
(***************************************************************************)
InitEngine ==
    /\ \E t \in EngineTables :
         /\ fs = [p \in Paths |-> IF p = DataPath THEN Book(t) ELSE Absent]
         /\ loaded = [r \in Req |-> IF r = 1 THEN t ELSE EmptyTable]
         /\ df = [r \in Req |-> IF r = 1 THEN t ELSE EmptyTable]
    /\ environ = [GEMINI_API_KEY |-> "", GOOGLE_API_KEY |-> ""]
    /\ clock = 0
    /\ loop = 1
    /\ pc = [r \in Req |-> IF r = 1 THEN "TableLoaded" ELSE "idle"]
    /\ \E a \in EngineRequests : args = [r \in Req |-> IF r = 1 THEN a ELSE NoArgs]
    /\ res = [r \in Req |-> EmptyTable]
    /\ answer = [r \in Req |-> ""]
    /\ llm = [r \in Req |-> ""]
    /\ out_path = [r \in Req |-> ""]
    /\ wrote = [r \in Req |-> {}]
    /\ resp = [r \in Req |-> NoResponse]
    /\ trace = [r \in Req |->
                  IF r = 1 THEN <<"Received", "Validated", "TableLoaded">> ELSE <<>>]
    /\ held = NoCall

NextEngine ==
    \/ Dispatch(1)
    \/ Persist(1)
    \/ Serialize(1)
    \/ Respond(1)

SpecEngine == InitEngine /\ [][NextEngine]_vars

(***************************************************************************)
(* The agent side of the service: analyze and health requests under every  *)
(* setting of the two credential variables.                                *)
(***************************************************************************)
\* health_check: no try block and no envelope of the other handlers; it
\* answers at once with "status": "healthy" and whether a key is set
HealthCheck(r) ==
    /\ pc[r] = "Received"
    /\ loop = r
    /\ args[r].kind = "health"
    /\ resp' = [resp EXCEPT ![r] =
                  [NoResponse EXCEPT
                     !.status = "healthy", !.status_code = 200,
                     !.body = [llm |-> IF gemini_key(environ) # "" THEN "configured"
                                       ELSE "not configured"]]]
    /\ loop' = 0
    /\ Goto(r, "Responded")
    /\ UNCHANGED <<fs, environ, held, llm, clock, args, loaded, df, res, answer, out_path, wrote>>

InitAgent ==
    /\ fs \in {[p \in Paths |-> IF p = DataPath THEN f ELSE Absent] :
                  f \in {Absent} \cup StoredFiles}
    /\ environ \in AllEnvironments
    /\ clock = 0
    /\ InitRequests
    /\ held = NoCall

NextAgent ==
    \/ \E r \in Req : Receive(r, AgentRequests)
    \/ \E r \in Req : Validate(r)
    \/ \E r \in Req : HealthCheck(r)
    \/ \E r \in Req : LoadTable(r)
    \/ \E r \in Req : InitLLM(r)
    \/ \E r \in Req : InvokeAgent(r)
    \/ \E r \in Req : Bridge(r)
    \/ \E r \in Req : Serialize(r)
    \/ \E r \in Req : Respond(r)

SpecAgent == InitAgent /\ [][NextAgent]_vars

(***************************************************************************)
(* The engine called directly, as a library: the caller keeps its call and *)
(* the results it got, and the service stands idle.                        *)
(***************************************************************************)
service == <<fs, environ, llm, clock, loop, pc, args, loaded, df, res, answer,
             out_path, wrote, resp, trace>>

ServiceIdle ==
    /\ fs = [p \in Paths |-> Absent]
    /\ environ = [GEMINI_API_KEY |-> "", GOOGLE_API_KEY |-> ""]
    /\ clock = 0
    /\ InitRequests

\* the table of the caller's latest result
Latest == held.out[Len(held.out)]

\* filter_data(df, condition) on a table, then on what it returned
InitFilter ==
    /\ ServiceIdle
    /\ \E t \in EngineTables, c \in FilterConditions :
         held = [call |-> FilterArgs("", "", c), out |-> <<Returned(t)>>]

CallFilter ==
    /\ held.call.kind = "filter"
    /\ Len(held.out) \in {1, 2}
    /\ Latest.exc = ""
    /\ held' = [held EXCEPT !.out = Append(@, filter_data(Latest.val, held.call.condition))]
    /\ UNCHANGED service

SpecFilter == InitFilter /\ [][CallFilter]_vars

\* aggregations(df, columns, agg_funcs) on a table and on the same table
\* with its rows reordered by the caller (df.iloc[order])
InitAggregate ==
    /\ ServiceIdle
    /\ \E t \in FloatTables,
          f \in {<<"sum", "mean", "min", "max", "count", "std">>, <<"min", "max", "count">>} :
         held = [call |-> AggregateArgs("", "", <<"a">>, f), out |-> <<Returned(t)>>]

Reorder ==
    /\ held.call.kind = "aggregate"
    /\ Len(held.out) = 1
    /\ \E order \in Permutations(1..Latest.val.nrows) :
         held' = [held EXCEPT !.out =
                    Append(@, Returned(take_rows(Latest.val,
                                                 [i \in 1..Latest.val.nrows |-> order[i]])))]
    /\ UNCHANGED service

CallAggregations ==
    /\ held.call.kind = "aggregate"
    /\ Len(held.out) \in {2, 3}
    /\ held' = [held EXCEPT !.out =
                  Append(@, aggregations(held.out[Len(held.out) - 1].val,
                                         held.call.columns, held.call.functions))]
    /\ UNCHANGED service

SpecAggregate == InitAggregate /\ [][Reorder \/ CallAggregations]_vars

\* pivot_table on a table, then unpivot_table with the matching parameters
\* on its result, whose index the caller first turns into a column
InitPivot ==
    /\ ServiceIdle
    /\ \E n \in 0..PivotRows : \E t \in PivotTables(n) :
         held = [call |-> PivotArgs("", "", "v", "i", "c", "mean"), out |-> <<Returned(t)>>]

CallPivot ==
    /\ held.call.kind = "pivot"
    /\ Len(held.out) = 1
    /\ held' = [held EXCEPT !.out =
                  Append(@, pivot_table(Latest.val, held.call.values, held.call.index,
                                        held.call.pivot_columns, held.call.aggfunc))]
    /\ UNCHANGED service

ResetIndex ==
    /\ held.call.kind = "pivot"
    /\ Len(held.out) = 2
    /\ Latest.exc = ""
    /\ Len(Latest.val.columns) > 0
    /\ held' = [held EXCEPT !.out = Append(@, Returned(reset_index(Latest.val)))]
    /\ UNCHANGED service

CallUnpivot ==
    /\ held.call.kind = "pivot"
    /\ Len(held.out) = 3
    /\ held' = [held EXCEPT !.out =
                  Append(@, unpivot_table(Latest.val, <<held.call.index>>,
                                          held.out[2].val.columns))]
    /\ UNCHANGED service

SpecPivot == InitPivot /\ [][CallPivot \/ ResetIndex \/ CallUnpivot]_vars

\* join_dataframes on two tables
InitJoin ==
    /\ ServiceIdle
    /\ \E t1 \in JoinTables("a"), t2 \in JoinTables("b") \cup JoinTables("a"),
          on \in {"k", "zz"}, how \in JoinKinds \cup {"cross join"} :
         held = [call |-> [kind |-> "join", on |-> on, how |-> how], out |-> <<Returned(t1), Returned(t2)>>]

CallJoin ==
    /\ held.call.kind = "join"
    /\ Len(held.out) = 2
    /\ held' = [held EXCEPT !.out =
                  Append(@, join_dataframes(held.out[1].val, held.out[2].val,
                                            held.call.on, held.call.how))]
    /\ UNCHANGED service

SpecJoin == InitJoin /\ [][CallJoin]_vars

\* date_operations(df, date_col) on a table
InitDate ==
    /\ ServiceIdle
    /\ \E t \in DateTables, c \in {"d", "zz"} :
         held = [call |-> [kind |-> "date", date_col |-> c], out |-> <<Returned(t)>>]

CallDate ==
    /\ held.call.kind = "date"
    /\ Len(held.out) = 1
    /\ \E object_result \in BOOLEAN :
         held' = [held EXCEPT !.out =
                    Append(@, date_operations(Latest.val, held.call.date_col, object_result))]
    /\ UNCHANGED service

SpecDate == InitDate /\ [][CallDate]_vars

(***************************************************************************)
(* Properties.                                                             *)
(***************************************************************************)
\* the steps after the engine call returned
AfterDispatch == {"Dispatched", "Persisted", "ResultSerialized", "Responded"}
AfterPersist == {"Persisted", "ResultSerialized", "Responded"}

\* has request r gone through the given step?
Passed(r, step) == \E i \in 1..Len(trace[r]) : trace[r][i] = step

\* the operator a math request names, applied to one pair of cells
Elementwise(operation, x, y) ==
    CASE operation = "add" -> FAdd(x, y)
      [] operation = "subtract" -> FSub(x, y)
      [] operation = "multiply" -> FMul(x, y)
      [] operation = "divide" -> FDiv(x, y)

\* column c of table t is, row for row, the operator applied to columns col1
\* and col2 of the table as loaded
IsElementwise(t, c, a, source) ==
    /\ t.nrows = source.nrows
    /\ HasCol(t, c)
    /\ Len(t.data[c]) = source.nrows
    /\ \A i \in 1..source.nrows :
          t.data[c][i] = Elementwise(a.operation, source.data[a.col1][i],
                                     source.data[a.col2][i])

\* C1: for a math request with a supported operator whose col1 and col2 are
\* columns of the loaded table, the table basic_math returns has the row
\* count of the loaded table and result_col[i] = operator(col1[i], col2[i])
\* for every row i (col1, col2 as loaded), and so has the workbook that
\* POST /operations/math persists.
C1_MathElementwise ==
    \A r \in Req :
        ( /\ args[r].kind = "math"
          /\ args[r].operation \in SupportedOps
          /\ HasCol(loaded[r], args[r].col1)
          /\ HasCol(loaded[r], args[r].col2) )
        => /\ pc[r] \in AfterDispatch
                => IsElementwise(res[r], args[r].result_col, args[r], loaded[r])
           /\ pc[r] \in AfterPersist
                => /\ fs[out_path[r]].st = "book"
                   /\ IsElementwise(fs[out_path[r]].table, args[r].result_col,
                                    args[r], loaded[r])

C1_Witness ==
    \E r \in Req :
        /\ pc[r] = "Responded"
        /\ args[r].kind = "math"
        /\ args[r].operation = "multiply"
        /\ args[r].col1 = "a" /\ args[r].col2 = "b" /\ args[r].result_col = "c"
        /\ loaded[r].nrows = 2
        /\ fs[out_path[r]].table.data["c"] = <<Num(0), Num(1)>>

\* the cells of a column that are not blank, as a set of row numbers
Filled(s) == {i \in 1..Len(s) : ~IsNaN(s[i])}

\* the floating-point sum of the given rows of s, taken in row order
RECURSIVE SumOver(_, _)
SumOver(s, rows) ==
    IF rows = {} THEN Num(0)
    ELSE LET i == CHOOSE i \in rows : \A k \in rows : k <= i
         IN  FAdd(SumOver(s, rows \ {i}), s[i])

\* v is the value of function f over the column s
IsAggregate(f, s, v) ==
    LET n == Cardinality(Filled(s))
        total == SumOver(s, Filled(s))
        mean == FDiv(total, Num(n))
        devs == [i \in 1..Len(s) |-> IF IsNaN(s[i]) THEN NaN
                                      ELSE FMul(FSub(s[i], mean), FSub(s[i], mean))]
    IN  CASE f = "sum" -> v = total
          [] f = "count" -> v = Num(n)
          [] f = "mean" -> IF n = 0 THEN IsNaN(v) ELSE v = mean
          [] f = "min" -> IF n = 0 THEN IsNaN(v)
                          ELSE /\ \E i \in Filled(s) : s[i] = v
                               /\ \A i \in Filled(s) : ~FLess(s[i], v)
          [] f = "max" -> IF n = 0 THEN IsNaN(v)
                          ELSE /\ \E i \in Filled(s) : s[i] = v
                               /\ \A i \in Filled(s) : ~FLess(v, s[i])
          [] f = "std" -> IF n < 2 THEN IsNaN(v)
                          ELSE /\ v[1] = "sqrt"
                               /\ <<"num", v[2], v[3]>>
                                     = FDiv(SumOver(devs, Filled(s)), Num(n - 1))

\* the (column, function) pairs of an aggregate request that name a
\* supported function
AggPairs(a) ==
    {<<a.columns[i], a.functions[j]>> :
        i \in 1..Len(a.columns),
        j \in {j \in 1..Len(a.functions) : a.functions[j] \in SupportedAggs}}

\* the record rec has exactly one entry "<c>_<f>" per pair, holding f over c
IsAggregateRecord(rec, a, source) ==
    /\ DOMAIN rec = {p[1] \o "_" \o p[2] : p \in AggPairs(a)}
    /\ \A p \in AggPairs(a) : IsAggregate(p[2], source.data[p[1]], rec[p[1] \o "_" \o p[2]])

\* C2: for an aggregate request over existing columns, the record returned
\* has exactly one entry per (requested column c, requested supported
\* function f), keyed "<c>_<f>", whose value is f over column c of the loaded
\* table; it has no other key, and repeated names add no entry.
C2_AggregateRecord ==
    \A r \in Req :
        ( /\ args[r].kind = "aggregate"
          /\ \A i \in 1..Len(args[r].columns) : HasCol(loaded[r], args[r].columns[i]) )
        => /\ pc[r] \in AfterDispatch
                => /\ res[r].nrows = 1
                   /\ Len(res[r].columns) = Cardinality(AggPairs(args[r]))
                   /\ IsAggregateRecord([k \in Range(res[r].columns) |-> res[r].data[k][1]],
                                        args[r], loaded[r])
           /\ pc[r] \in {"ResultSerialized", "Responded"}
                => IsAggregateRecord(resp[r].body.aggregations, args[r], loaded[r])

C2_Witness ==
    \E r \in Req :
        /\ pc[r] = "Responded"
        /\ args[r].kind = "aggregate"
        /\ args[r].columns = <<"a", "a">>
        /\ args[r].functions = <<"max", "sum", "max">>
        /\ loaded[r].data["a"] = <<Num(1), Num(0)>>
        /\ resp[r].body.aggregations = [a_max |-> Num(1), a_sum |-> Num(1)]

\* the handler of request r has ended, with a response
Ended(r) == pc[r] \in {"Responded", "Failed"}

\* the step request r failed in came right after the given step
FailedAfter(r, step) ==
    /\ pc[r] = "Failed"
    /\ Len(trace[r]) >= 2
    /\ trace[r][Len(trace[r]) - 1] = step

\* the supported function names of an aggregate request, in order
SupportedOf(functions) == SelectSeq(functions, LAMBDA f : f \in SupportedAggs)

\* C3: an aggregate request (readable workbook, existing columns) that names
\* a function outside the six supported ones does not fail: it is answered
\* with status success, and its record is the one the supported names alone
\* give.
C3_UnknownFunctionSkipped ==
    \A r \in Req :
        ( /\ args[r].kind = "aggregate"
          /\ Passed(r, "TableLoaded")
          /\ \A i \in 1..Len(args[r].columns) : HasCol(loaded[r], args[r].columns[i])
          /\ \E j \in 1..Len(args[r].functions) : args[r].functions[j] \notin SupportedAggs
          /\ Ended(r) )
        => /\ resp[r].status = "success"
           /\ IsAggregateRecord(resp[r].body.aggregations,
                                [args[r] EXCEPT !.functions = SupportedOf(@)], loaded[r])

\* the column names an operation request refers to
ReferencedColumns(a) ==
    IF a.kind = "math" THEN {a.col1, a.col2}
    ELSE IF a.kind = "aggregate" THEN Range(a.columns)
    ELSE IF a.kind = "filter" THEN {a.condition[1]} \cup ({a.condition[4]} \ {""})
    ELSE IF a.kind = "pivot" THEN {a.values, a.index, a.pivot_columns}
    ELSE {}

\* C4: an operation that refers to a column the loaded table does not have
\* fails in the dispatcher, whatever its other parameters are: the engine
\* call returns no result.
C4_MissingColumnFails ==
    \A r \in Req :
        ( /\ args[r].kind \in OperationKinds
          /\ Passed(r, "TableLoaded")
          /\ \E c \in ReferencedColumns(args[r]) : ~HasCol(loaded[r], c) )
        => ~Passed(r, "Dispatched")

\* C5: an upload whose file name does not end in .xlsx or .xls is answered
\* with status 400, and an upload is answered with status 500 only when the
\* file could not be written.
C5_UploadBadExtension400 ==
    \A r \in Req :
        (args[r].kind = "upload" /\ pc[r] = "Failed")
        => /\ ~HasExcelExtension(args[r].filename) => resp[r].status_code = 400
           /\ resp[r].status_code = 500
                => /\ FailedAfter(r, "Validated")
                   /\ HasExcelExtension(args[r].filename)

\* C6: an analyze request for a path where no file exists is answered with
\* status 404, and an analyze request is answered with status 500 only when
\* loading the table or the agent failed.
C6_AnalyzeMissingFile404 ==
    \A r \in Req :
        (args[r].kind = "analyze" /\ pc[r] = "Failed")
        => /\ FailedAfter(r, "Received") => resp[r].status_code = 404
           /\ resp[r].status_code = 500 => ~FailedAfter(r, "Received")

\* the request failed in read_excel / get_sheet_names
FailedInLoad(r) ==
    FailedAfter(r, IF args[r].kind = "upload" THEN "Saved" ELSE "Validated")

\* C7: a request whose workbook cannot be read (missing, corrupt, no
\* workbook) is answered with status 400 or 404, the status the adapter
\* raised.
C7_UnreadableIs400 ==
    \A r \in Req : FailedInLoad(r) => resp[r].status_code \in {400, 404}

\* C8: the result_file of every successful math, filter or pivot request
\* was written by no other request, and it holds that request's own output
\* table whatever requests were served since.
C8_OwnOutputFile ==
    \A r \in Req :
        ( /\ args[r].kind \in PersistingKinds
          /\ pc[r] = "Responded" )
        => /\ \A q \in Req \ {r} : resp[r].result_file \notin wrote[q]
           /\ fs[resp[r].result_file] =
                 Book(to_excel(OutputTable(args[r].kind, res[r])))

\* C9: no partial success: a math, filter or pivot request that is answered
\* with an error has created or overwritten no output file, and one answered
\* with success has written its complete result.
C9_NoPartialSuccess ==
    \A r \in Req :
        args[r].kind \in PersistingKinds
        => /\ pc[r] = "Failed" => wrote[r] = {}
           /\ pc[r] = "Responded" => wrote[r] = {resp[r].result_file}

\* the states of the orchestrator's state machine among a handler's steps
Stages(steps) ==
    SelectSeq(steps, LAMBDA x : x \in {"Received", "Validated", "TableLoaded", "Dispatched",
                                       "Bridged", "ResultSerialized", "Responded"})

IsPrefix(s, t) == Len(s) <= Len(t) /\ \A i \in 1..Len(s) : s[i] = t[i]

\* Received -> Validated -> TableLoaded -> {Dispatched | Bridged} ->
\* ResultSerialized -> Responded
FullPath(kind) ==
    <<"Received", "Validated", "TableLoaded",
      IF kind = "analyze" THEN "Bridged" ELSE "Dispatched",
      "ResultSerialized", "Responded">>

\* the same, without a dispatch for an upload
PathOf(kind) ==
    IF kind = "upload"
    THEN <<"Received", "Validated", "TableLoaded", "ResultSerialized", "Responded">>
    ELSE FullPath(kind)

\* request r has gone through a prefix of the path, a failure ended it and
\* nothing followed, it is answered exactly when it ended, with success or
\* with an error that carries a message, and a request not yet answered is
\* the one the event loop runs or an upload waiting for its body
Lifecycle(r, path) ==
    LET t == trace[r]
        done == IF pc[r] = "Failed" THEN SubSeq(t, 1, Len(t) - 1) ELSE t
    IN  /\ pc[r] = IF t = <<>> THEN "idle" ELSE t[Len(t)]
        /\ \A i \in 1..Len(done) : done[i] # "Failed"
        /\ IsPrefix(Stages(done), path)
        /\ Ended(r) <=> resp[r].status # ""
        /\ pc[r] = "Responded"
              => /\ resp[r].status = "success" /\ resp[r].status_code = 200
                 /\ Stages(done) = path
        /\ pc[r] = "Failed" => resp[r].status = "error" /\ resp[r].detail # ""
        /\ (pc[r] # "idle" /\ ~Ended(r)) => (loop = r \/ pc[r] = "Saving")

FirstCredential ==
    IF environ.GEMINI_API_KEY # "" THEN environ.GEMINI_API_KEY
    ELSE IF environ.GOOGLE_API_KEY # "" THEN environ.GOOGLE_API_KEY
    ELSE ""

\* C11: get_llm gives a client made with the first of GEMINI_API_KEY,
\* GOOGLE_API_KEY that holds a value; when neither does it fails with status
\* 500 and no client is made; /health reports llm "configured" exactly when
\* get_llm would find a credential.
C11_CredentialOrder ==
    \A r \in Req :
        /\ (args[r].kind = "analyze" /\ Passed(r, "LLMReady"))
              => FirstCredential # "" /\ llm[r] = FirstCredential
        /\ (args[r].kind = "analyze" /\ FailedAfter(r, "TableLoaded"))
              => FirstCredential = "" /\ resp[r].status_code = 500
        /\ ~Passed(r, "LLMReady") => llm[r] = ""
        /\ (args[r].kind = "health" /\ pc[r] = "Responded")
              => (resp[r].body.llm = "configured" <=> FirstCredential # "")

C11_Witness ==
    \E r, q \in Req :
        /\ environ.GEMINI_API_KEY = "key-gemini" /\ environ.GOOGLE_API_KEY = "key-google"
        /\ args[r].kind = "analyze" /\ pc[r] = "Responded" /\ llm[r] = "key-gemini"
        /\ args[q].kind = "health" /\ pc[q] = "Responded"
        /\ resp[q].body.llm = "configured"

\* the value a condition compares its column with, over table t
ComparedWith(t, p) ==
    IF p[4] = "" THEN Num(p[3])
    ELSE IF Filled(t.data[p[4]]) = {} THEN NaN
    ELSE FDiv(SumOver(t.data[p[4]], Filled(t.data[p[4]])),
              Num(Cardinality(Filled(t.data[p[4]]))))

\* row i of table t satisfies the condition p
Satisfies(t, p, i) ==
    LET v == t.data[p[1]][i]
        w == ComparedWith(t, p)
    IN  /\ ~IsNaN(v) /\ ~IsNaN(w)
        /\ CASE p[2] = ">" -> FLess(w, v)
             [] p[2] = "<" -> FLess(v, w)
             [] p[2] = "==" -> ~FLess(v, w) /\ ~FLess(w, v)

\* table out holds exactly the rows of table t that satisfy p, in the order
\* of t, with the columns of t
IsSubsetInOrder(out, t, p) ==
    LET S == {i \in 1..t.nrows : Satisfies(t, p, i)}
    IN  /\ out.columns = t.columns
        /\ out.nrows = Cardinality(S)
        /\ \A j \in 1..out.nrows :
              LET i == CHOOSE i \in S : Cardinality({k \in S : k < i}) = j - 1
              IN  \A c \in Range(t.columns) : out.data[c][j] = t.data[c][i]

\* C12: the table filter_data returns holds exactly the rows of the loaded
\* table that satisfy the predicate, in their order, every column unchanged;
\* the response of /operations/filter has rows_before = rows of the loaded
\* table, rows_after = rows of the result, and rows_after <= rows_before.
C12_FilterSubset ==
    \A r \in Req :
        args[r].kind = "filter"
        => /\ pc[r] \in AfterDispatch
                => IsSubsetInOrder(res[r], loaded[r], args[r].condition)
           /\ pc[r] \in {"ResultSerialized", "Responded"}
                => /\ resp[r].body.rows_before = loaded[r].nrows
                   /\ resp[r].body.rows_after = res[r].nrows
                   /\ resp[r].body.rows_after <= resp[r].body.rows_before

C12_Witness ==
    \E r \in Req :
        /\ pc[r] = "Responded"
        /\ args[r].kind = "filter"
        /\ args[r].condition = <<"a", ">", 0, "">>
        /\ loaded[r].data["a"] = <<Num(1), Num(0)>>
        /\ loaded[r].data["b"] = <<NaN, Num(1)>>
        /\ resp[r].body.rows_before = 2 /\ resp[r].body.rows_after = 1
        /\ res[r].data["b"] = <<NaN>>

\* C13: filter is idempotent: filtering the result of a filter with the
\* same predicate returns the same table, same rows in the same order.
C13_FilterIdempotent ==
    (held.call.kind = "filter" /\ Len(held.out) = 3)
    => /\ held.out[3].exc = ""
       /\ held.out[3].val = held.out[2].val

TotalFits(t) ==
    LET RECURSIVE Total(_)
        Total(i) == IF i = 0 THEN 0
                    ELSE Total(i - 1) + (IF IsNaN(t.data["a"][i]) THEN 0 ELSE t.data["a"][i][2])
    IN  Total(t.nrows) <= 2^MantissaBits

HeaderOf(c) == IF IsNaN(c) THEN NaN ELSE Text(ColLabel(c))

\* the (index, column, value) triples of the input table
InputTriples(t) ==
    {<<t.data["i"][r], HeaderOf(t.data["c"][r]), t.data["v"][r]>> : r \in 1..t.nrows}

\* the (index, variable, value) triples of the unpivoted table
OutputTriples(t) ==
    {<<t.data["i"][r], t.data["variable"][r], t.data["value"][r]>> : r \in 1..t.nrows}

ValueKnown(S) == {x \in S : ~IsNaN(x[3])}

\* the mean of the filled values of the rows of t with keys (iv, cv)
GroupMean(t, iv, cv) ==
    LET rows == {r \in 1..t.nrows : /\ t.data["i"][r] = iv /\ t.data["c"][r] = cv
                                    /\ ~IsNaN(t.data["v"][r])}
    IN  IF rows = {} THEN NaN
        ELSE FDiv(SumOver(t.data["v"], rows), Num(Cardinality(rows)))

\* one triple per pair of non-blank keys whose group has a value: its mean
GroupTriples(t) ==
    {<<t.data["i"][r], HeaderOf(t.data["c"][r]),
       GroupMean(t, t.data["i"][r], t.data["c"][r])>> :
        r \in {r \in 1..t.nrows : /\ ~IsNaN(t.data["i"][r]) /\ ~IsNaN(t.data["c"][r])
                                   /\ ~IsNaN(t.data["v"][r])}}

\* no two rows of t have the same (index, column) pair, and no key is blank
UniquePairs(t) ==
    /\ \A r \in 1..t.nrows : ~IsNaN(t.data["i"][r]) /\ ~IsNaN(t.data["c"][r])
    /\ \A r, q \in 1..t.nrows :
          (t.data["i"][r] = t.data["i"][q] /\ t.data["c"][r] = t.data["c"][q]) => r = q

KeyValues(t) == {t.data["k"][r] : r \in 1..t.nrows} \ {NaN}

\* the number of rows of t with key v
KeyCount(t, v) == Cardinality({r \in 1..t.nrows : t.data["k"][r] = v})

\* no two rows of t have the same key cell
UniqueKey(t) == \A r, q \in 1..t.nrows : t.data["k"][r] = t.data["k"][q] => r = q

RECURSIVE MatchedRows(_, _, _)
MatchedRows(t1, t2, V) ==
    IF V = {} THEN 0
    ELSE LET v == CHOOSE v \in V : TRUE
         IN  KeyCount(t1, v) * KeyCount(t2, v) + MatchedRows(t1, t2, V \ {v})

\* the cardinality of a join on k over the key values V the tables share
JoinCardinality(V) ==
    (held.call.kind = "join" /\ Len(held.out) = 3 /\ held.call.on = "k")
    => LET t1 == held.out[1].val
           t2 == held.out[2].val
           rows == held.out[3].val.nrows
       IN  /\ held.call.how = "inner"
                => /\ held.out[3].exc = ""
                   /\ rows = MatchedRows(t1, t2, V)
                   /\ (UniqueKey(t1) /\ UniqueKey(t2)) => rows = Cardinality(V)
           /\ held.call.how = "outer"
                => /\ held.out[3].exc = ""
                   /\ rows >= t1.nrows /\ rows >= t2.nrows

\* C16: an inner join on a key has (left matches x right matches) rows per
\* key value present in both tables, so as many rows as there are such key
\* values when the key is unique in each table; an outer join has at least
\* max(left rows, right rows) rows.
C16_JoinCardinality ==
    JoinCardinality(KeyValues(held.out[1].val) \cap KeyValues(held.out[2].val))

\* request r is in a resource read, a resource write or the agent round
\* trip: its handler is about to make, or is inside, the blocking call
InBlockingIO(r) ==
    /\ loop = r
    /\ \/ pc[r] = "AgentCalled"
       \/ pc[r] = "Validated" /\ args[r].kind # "upload"
       \/ pc[r] = "Saved"
       \/ pc[r] = "Dispatched" /\ args[r].kind \in PersistingKinds

\* C17: while a request is in a read, a write or the agent round trip, a
\* concurrent request (an upload whose body has arrived) can go on.
C17_IODoesNotBlock ==
    \A r, q \in Req :
        (r # q /\ InBlockingIO(r) /\ pc[q] = "Saving") => ENABLED SaveUpload(q)
Count(s, x) == Cardinality({i \in 1..Len(s) : s[i] = x})

\* C18: a request to /analyze calls the agent at most once; when the call
\* fails the request is answered 500 and the agent is not called again;
\* when it succeeds the response carries the agent's result unchanged and
\* rows_analyzed is the row count of the table that was loaded.
C18_AnalyzeOnce ==
    \A r \in Req :
        args[r].kind = "analyze" =>
            /\ Count(trace[r], "AgentCalled") <= 1
            /\ FailedAfter(r, "AgentCalled") =>
                   resp[r].status_code = 500
            /\ pc[r] = "Responded" =>
                   /\ resp[r].body.result = answer[r]
                   /\ resp[r].body.rows_analyzed = loaded[r].nrows

\* the same, with rows_analyzed left out
AnalyzeOnceExceptRowCount ==
    \A r \in Req :
        args[r].kind = "analyze" =>
            /\ Count(trace[r], "AgentCalled") <= 1
            /\ FailedAfter(r, "AgentCalled") =>
                   resp[r].status_code = 500
            /\ pc[r] = "Responded" => resp[r].body.result = answer[r]

\* a response without the name of its output file
Stripped(r) ==
    [status |-> resp[r].status, status_code |-> resp[r].status_code,
     detail |-> resp[r].detail,
     body |-> IF pc[r] = "Responded" /\ args[r].kind \in PersistingKinds
              THEN [resp[r].body EXCEPT !.result_file = ""]
              ELSE resp[r].body]

\* the output file of r could not be written (a fault of the disk)
WriteFailed(r) == args[r].kind \in PersistingKinds /\ FailedAfter(r, "Dispatched")

\* the handler of r has read its table and has answered or failed since,
\* and not for a write fault
AnsweredFromTable(r) ==
    /\ args[r].kind \in OperationKinds
    /\ Ended(r)
    /\ \E i \in 1..Len(trace[r]) : trace[r][i] = "TableLoaded"
    /\ ~WriteFailed(r)

DateValues ==
    LET t == held.out[1].val
        s == t.data[held.call.date_col]
    IN  {s[i] : i \in {j \in 1..t.nrows : ~IsNaN(s[j])}}

\* C20: on a column whose values all parse as dates date_operations adds
\* <col>_year, <col>_month, <col>_day and <col>_dayofweek, one value per
\* row; when a value does not parse the call fails and the table is as it
\* was passed in.
C20_DateAllOrNothing ==
    (held.call.kind = "date" /\ Len(held.out) = 2 /\ HasCol(held.out[1].val, held.call.date_col)) =>
        LET before == held.out[1].val
            after  == held.out[2]
            col    == held.call.date_col
        IN  /\ (\A c \in DateValues : parses(c)) =>
                   /\ after.exc = ""
                   /\ \A k \in 1..Len(DateFields) :
                          /\ HasCol(after.val, col \o "_" \o DateFields[k])
                          /\ Len(after.val.data[col \o "_" \o DateFields[k]]) = before.nrows
            /\ (\E c \in DateValues : ~parses(c)) =>
                   after.exc # "" /\ after.val = before

\* C21: in /upload the extension check comes before any write. A step of a
\* request creates, truncates or overwrites a file of the upload directory
\* only if the request is an upload whose filename ends in .xlsx or .xls,
\* and then the file is the one named by the client-supplied filename.
C21_ExtensionBeforeWrite ==
    [][\A r \in Req :
          pc'[r] # pc[r] =>
              \A p \in UploadPaths :
                  (fs'[p] # fs[p] \/ p \in wrote'[r] \ wrote[r]) =>
                      /\ args[r].kind = "upload"
                      /\ HasExcelExtension(args[r].filename)
                      /\ p = PathJoin(UPLOAD_DIR, FileName(args[r].filename))]_vars

\* an upload of data.xlsx was stored under that name, and an upload of
\* notes.txt was refused and left no file
C21_Witness ==
    \E r, q \in Req :
        /\ args[r].kind = "upload" /\ args[r].filename = <<"data", ".xlsx">>
        /\ pc[r] = "Responded"
        /\ fs[PathJoin(UPLOAD_DIR, "data.xlsx")] = args[r].content
        /\ args[q].kind = "upload" /\ args[q].filename = <<"notes", ".txt">>
        /\ pc[q] = "Failed"
        /\ wrote[q] = {}
        /\ fs[PathJoin(UPLOAD_DIR, "notes.txt")] = Absent

\* the kinds of request that read a spreadsheet named by file_path
ReadingKinds == OperationKinds \cup {"analyze"}

\* C22: no step of an analyze, math, aggregate, filter or pivot request on a
\* file of the upload directory writes to that file, whether the request
\* goes on or fails in the step: the only file such a step creates or
\* changes is the request's new output file, in the output directory.
C22_InputUntouched ==
    [][\A r \in Req :
          (/\ pc'[r] # pc[r]
           /\ args[r].kind \in ReadingKinds
           /\ args[r].file_path \in UploadPaths) =>
              /\ fs'[args[r].file_path] = fs[args[r].file_path]
              /\ \A p \in Paths :
                    (fs'[p] # fs[p] \/ p \in wrote'[r] \ wrote[r]) =>
                        /\ p \in OutputPaths
                        /\ p = out_path'[r]
                        /\ pc'[r] = "Persisted"]_vars

\* a math request was answered: the result column is in its table and in
\* its output file, and the spreadsheet it read is as it was loaded
C22_Witness ==
    \E r \in Req :
        /\ args[r].kind = "math"
        /\ pc[r] = "Responded"
        /\ HasCol(res[r], args[r].result_col)
        /\ ~HasCol(loaded[r], args[r].result_col)
        /\ fs[out_path[r]] = Book(to_excel(res[r]))
        /\ fs[args[r].file_path] = Book(loaded[r])

\* C23: in /analyze the agent is called only after the file was found, the
\* table was read and a credential was found, in that order. A request on
\* an absent file fails in the existence check with the file error, also
\* when there is no credential; a request on an unreadable file fails in
\* the read; a request without credential fails in get_llm; none of them
\* reaches the agent.
C23_AgentAfterChecks ==
    /\ [](\A r \in Req :
             args[r].kind = "analyze" =>
                 /\ "AgentCalled" \in Range(trace[r]) =>
                        /\ IsPrefix(<<"Received", "Validated", "TableLoaded", "LLMReady",
                                      "AgentCalled">>, trace[r])
                        /\ api_key(environ) # ""
                        /\ llm[r] = api_key(environ)
                 /\ api_key(environ) = "" => "AgentCalled" \notin Range(trace[r]))
    /\ [][\A r \in Req :
             (args[r].kind = "analyze" /\ pc'[r] # pc[r]) =>
                 /\ (pc[r] = "Received" /\ fs[args[r].file_path].st = "absent") =>
                        /\ pc'[r] = "Failed"
                        /\ resp'[r].detail = StrHTTPException(404, "File not found")
                 /\ (pc[r] = "Validated" /\ fs[args[r].file_path].st # "book") =>
                        pc'[r] = "Failed"
                 /\ (pc[r] = "TableLoaded" /\ api_key(environ) = "") =>
                        pc'[r] = "Failed"]_vars

\* with no credential set, a request on an absent file was answered with the
\* file error, and a request on a workbook failed in get_llm
C23_Witness ==
    /\ api_key(environ) = ""
    /\ \E r, q \in Req :
          /\ args[r].kind = "analyze" /\ args[q].kind = "analyze"
          /\ FailedAfter(r, "Received")
          /\ resp[r].detail = StrHTTPException(404, "File not found")
          /\ FailedAfter(q, "TableLoaded")

\* C24: basic_math called with an operator name outside add, subtract,
\* multiply and divide raises no error, also when col1 or col2 is no column
\* of the table (no column is read), and returns the table as it was
\* passed in: the same columns, cells and row count.
C24_UnknownOperatorNoOp ==
    \A r \in Req :
        (/\ args[r].kind = "math"
         /\ args[r].operation \notin {"add", "subtract", "multiply", "divide"}) =>
            /\ ~FailedAfter(r, "TableLoaded")
            /\ "Dispatched" \in Range(trace[r]) =>
                   /\ res[r] = loaded[r]
                   /\ df[r] = loaded[r]
                   /\ res[r].nrows = loaded[r].nrows

\* basic_math has returned from "power" on a column zz the table lacks
C24_Witness ==
    \E r \in Req :
        /\ args[r].kind = "math"
        /\ args[r].operation = "power"
        /\ args[r].col1 = "zz"
        /\ ~HasCol(loaded[r], "zz")
        /\ pc[r] = "Dispatched"
        /\ loaded[r].nrows = 2
        /\ res[r] = loaded[r]

====
